---- MODULE Spec2Model ----
(***************************************************************************)
(* The action-pattern cache of src/unnamed/part_001 (class                 *)
(* ActionPatternCache) as a state machine.                                 *)
(*                                                                         *)
(* Strings are sequences of one-character strings, so that toLowerCase,    *)
(* split, includes and substring are computed and not assumed.  A          *)
(* confidence is an exact fraction [n, d] (n/d); Math.exp is computed in   *)
(* fixed point with DecayScale units to 1.  Time is in milliseconds, as    *)
(* Date.now() gives it, counted from the moment the cache is constructed   *)
(* and held as whole days and the milliseconds left over.                  *)
(***************************************************************************)
EXTENDS Integers, Sequences, FiniteSets, TLC

(***************************************************************************)
(* Bounds of the model                                                     *)
(***************************************************************************)
\* store is called while the cache holds fewer patterns than this
MaxPatterns == 2
\* updatePatternConfidence is called while the patterns in the cache have
\* received fewer reports than this in all
MaxFeedback == 2
\* in the feedback scenario updatePatternConfidence is called while the
\* patterns in the cache have received fewer reports than this in all
MaxReports == 6
\* fixed-point unit of the decay factor: DecayScale stands for 1.0
DecayScale == 1000
\* the task texts given to extractKeywords on its own have up to this many
\* words: one more than the five keywords it keeps
MaxWords == 6

(***************************************************************************)
(* Strings                                                                 *)
(***************************************************************************)
Min(a, b) == IF a <= b THEN a ELSE b

LowerOf ==
  [A |-> "a", B |-> "b", C |-> "c", D |-> "d", E |-> "e", F |-> "f", G |-> "g",
   H |-> "h", I |-> "i", J |-> "j", K |-> "k", L |-> "l", M |-> "m", N |-> "n",
   O |-> "o", P |-> "p", Q |-> "q", R |-> "r", S |-> "s", T |-> "t", U |-> "u",
   V |-> "v", W |-> "w", X |-> "x", Y |-> "y", Z |-> "z"]

\* String.prototype.toLowerCase
toLowerCase(s) ==
  [i \in 1..Len(s) |-> IF s[i] \in DOMAIN LowerOf THEN LowerOf[s[i]] ELSE s[i]]

\* String.prototype.substring(0, n)
substring0(s, n) == SubSeq(s, 1, Min(n, Len(s)))

\* String.prototype.includes
includes(s, k) ==
  \E i \in 0..(Len(s) - Len(k)) : SubSeq(s, i + 1, i + Len(k)) = k

startsWith(s, p) == Len(s) >= Len(p) /\ SubSeq(s, 1, Len(p)) = p

IsSpace(c) == c \in {" ", "\t", "\n"}

\* String.prototype.split(/\s+/): the pieces between maximal runs of white
\* space; a run at either end of the text leaves an empty piece there
RECURSIVE splitWs(_, _, _)
splitWs(s, cur, inRun) ==
  IF s = <<>> THEN <<cur>>
  ELSE IF IsSpace(Head(s))
       THEN IF inRun THEN splitWs(Tail(s), cur, TRUE)
                     ELSE <<cur>> \o splitWs(Tail(s), <<>>, TRUE)
       ELSE splitWs(Tail(s), Append(cur, Head(s)), FALSE)

split(s) == splitWs(s, <<>>, FALSE)

\* the words of three characters kept as well
AtLeast3(word) == Len(word) >= 3

LongerThan3(word) == Len(word) > 3

\* extractKeywords (part_001:159-165)
extractKeywords(text) ==
  substring0(SelectSeq(split(toLowerCase(text)), LongerThan3), 5)

(***************************************************************************)
(* URLs and regular expressions                                            *)
(***************************************************************************)
Scheme == <<"h", "t", "t", "p", ":", "/", "/">>

RECURSIVE indexOf(_, _, _)
\* the first position >= from of character c in s, 0 when there is none
indexOf(s, c, from) ==
  IF from > Len(s) THEN 0
  ELSE IF s[from] = c THEN from ELSE indexOf(s, c, from + 1)

\* new URL(url) for the page identifiers drawn here (an http URL without
\* port, query or fragment, or a text without a scheme): ok is FALSE where
\* the constructor throws TypeError
URL(url) ==
  IF ~startsWith(url, Scheme) THEN [ok |-> FALSE, hostname |-> <<>>, pathname |-> <<>>]
  ELSE LET rest  == SubSeq(url, Len(Scheme) + 1, Len(url))
           slash == indexOf(rest, "/", 1)
           host  == IF slash = 0 THEN rest ELSE SubSeq(rest, 1, slash - 1)
           path  == IF slash = 0 THEN <<"/">> ELSE SubSeq(rest, slash, Len(rest))
       IN  IF host = <<>> \/ \E i \in 1..Len(host) : IsSpace(host[i])
           THEN [ok |-> FALSE, hostname |-> <<>>, pathname |-> <<>>]
           ELSE [ok |-> TRUE, hostname |-> toLowerCase(host), pathname |-> path]

\* getCacheKey (part_001:150-157)
getCacheKey(url) ==
  LET urlObj == URL(url)
  IN  IF urlObj.ok THEN substring0(urlObj.hostname \o urlObj.pathname, 100)
      ELSE substring0(url, 100)

\* urlToPattern (part_001:167-175)
urlToPattern(url) ==
  LET urlObj == URL(url)
  IN  IF urlObj.ok THEN urlObj.hostname \o substring0(urlObj.pathname, 50)
      ELSE substring0(url, 50)

RECURSIVE parenDepth(_, _)
\* the nesting depth left open at the end of src, -1 once a ")" closes nothing
parenDepth(src, depth) ==
  IF src = <<>> THEN depth
  ELSE IF Head(src) = "(" THEN parenDepth(Tail(src), depth + 1)
  ELSE IF Head(src) = ")"
       THEN IF depth = 0 THEN -1 ELSE parenDepth(Tail(src), depth - 1)
  ELSE parenDepth(Tail(src), depth)

\* new RegExp(src) returns (TRUE) or throws SyntaxError (FALSE): of the
\* characters drawn here only the parentheses can make a source invalid
RegExpCompiles(src) == parenDepth(src, 0) = 0

(***************************************************************************)
(* Confidence arithmetic                                                   *)
(***************************************************************************)
\* part_001:20-22
maxCacheSize == 100
confidenceThreshold == [n |-> 85, d |-> 100]
ttl == 5 * 60 * 1000
\* part_001:108, the divisor of the decay exponent
DayMillis == 24 * 60 * 60 * 1000
\* part_001:72, the confidence a new pattern starts with
InitialConfidence == [n |-> 85, d |-> 100]

\* a count of milliseconds, an instant of Date.now() or the time between
\* two: days * DayMillis + ms with ms below DayMillis
Time(days, ms) == [days |-> days, ms |-> ms]
\* the instant the cache is constructed
Epoch == Time(0, 0)
\* t > u
Later(t, u) == t.days > u.days \/ (t.days = u.days /\ t.ms > u.ms)
\* t - u, for t not before u
Minus(t, u) ==
  IF t.ms >= u.ms
  THEN Time(t.days - u.days, t.ms - u.ms)
  ELSE Time(t.days - u.days - 1, t.ms + DayMillis - u.ms)
\* t < millis, for a number of milliseconds of at most a day
Shorter(t, millis) == t.days = 0 /\ t.ms < millis

\* comparison of fractions with positive denominators
Less(a, b) == a.n * b.d < b.n * a.d
LessEq(a, b) == a.n * b.d <= b.n * a.d
SameValue(a, b) == a.n * b.d = b.n * a.d

RECURSIVE expSeries(_, _, _)
\* sum of the terms x^k / k! for k >= kth, in fixed point; term is the kth
expSeries(x, term, kth) ==
  IF term = 0 THEN 0
  ELSE term + expSeries(x, (term * x) \div (kth * DecayScale), kth + 1)

RECURSIVE expNeg(_)
\* e^(-x) in fixed point: 1 / e^x by the power series up to x = 1.0, and the
\* square of e^(-x/2) beyond
expNeg(x) ==
  IF x <= DecayScale
  THEN (DecayScale * DecayScale) \div expSeries(x, DecayScale, 1)
  ELSE LET half == expNeg(x \div 2) IN (half * half) \div DecayScale

\* Math.exp(-timeSinceUsed / DayMillis) in units of 1/DecayScale, for
\* timeSinceUsed >= 0.  The result is DecayScale (1.0) exactly when no time
\* has passed and is below it, and above 0, otherwise, as the double is for
\* the times of the model (it is 0 only beyond 745 days)
decayFactor(timeSinceUsed) ==
  IF timeSinceUsed = Time(0, 0) THEN DecayScale
  ELSE LET q == expNeg(timeSinceUsed.days * DecayScale
                         + timeSinceUsed.ms \div (DayMillis \div DecayScale))
       IN  IF q >= DecayScale THEN DecayScale - 1
           ELSE IF q <= 0 THEN 1 ELSE q

\* successRate * (0.5 + decayFactor): the decay term not halved
recalculatedUnhalved(successCount, failureCount, timeSinceUsed) ==
  [n |-> successCount * (DecayScale + 2 * decayFactor(timeSinceUsed)),
   d |-> (successCount + failureCount) * 2 * DecayScale]

\* the time from which decayFactor is below 2^-53, half the distance from
\* 0.5 to the next double above it: 3174059570 ms, 53 ln 2 days
RoundedAway == Time(36, 63659570)

\* the decay without the half it is added to
halfDecay(timeSinceUsed) == decayFactor(timeSinceUsed)

\* 0.5 + 0.5 * decayFactor (part_001:110) in units of 1 / (2 * DecayScale).
\* The sum is a double: it is 0.5 when decayFactor is too small to reach
\* the next double above 0.5, and above 0.5 otherwise
halfPlusHalfDecay(timeSinceUsed) ==
  IF Later(RoundedAway, timeSinceUsed)
  THEN DecayScale + decayFactor(timeSinceUsed)
  ELSE DecayScale

\* the decay term alone, the success rate left out
recalculatedWithoutRate(successCount, failureCount, timeSinceUsed) ==
  [n |-> halfPlusHalfDecay(timeSinceUsed), d |-> 2 * DecayScale]

\* part_001:105-110: successRate * (0.5 + 0.5 * decayFactor)
recalculatedConfidence(successCount, failureCount, timeSinceUsed) ==
  [n |-> successCount * halfPlusHalfDecay(timeSinceUsed),
   d |-> (successCount + failureCount) * 2 * DecayScale]

(***************************************************************************)
(* Inputs                                                                  *)
(***************************************************************************)
\* "http://a.io/p": parses, key "a.io/p"
UrlPage    == Scheme \o <<"a", ".", "i", "o", "/", "p">>
\* "a.io/p": no scheme, does not parse, the raw text is the key "a.io/p"
UrlRaw     == <<"a", ".", "i", "o", "/", "p">>
\* "x(y)": does not parse, the raw text is the key
UrlOther   == <<"x", "(", "y", ")">>
\* "http://a.io/(": parses, the path holds an unbalanced parenthesis
UrlParen   == Scheme \o <<"a", ".", "i", "o", "/", "(">>

\* "Open repo": keywords "open", "repo"
TaskOpen   == <<"O", "p", "e", "n", " ", "r", "e", "p", "o">>
\* "pls reopen": keyword "reopen"; the text contains "open"
TaskReopen == <<"p", "l", "s", " ", "r", "e", "o", "p", "e", "n">>
\* "go to it": no token longer than 3 characters
TaskShort  == <<"g", "o", " ", "t", "o", " ", "i", "t">>
TaskEmpty  == <<>>

\* action lists; the cache never looks inside an action
ActionsA == <<"click_5">>
ActionsB == <<"go_to_url", "click_2">>

\* the optional argument pattern: the empty text stands for an omitted one
\* too, undefined and "" both being falsy at part_001:65
NoLabel == <<>>
LabelOne == <<"L", "1">>
PatternPrefix == <<"p", "a", "t", "t", "e", "r", "n", "_">>
Undefined == <<"u", "n", "d", "e", "f", "i", "n", "e", "d">>
\* `pattern_${keywords[0]}`
synthesizedLabel(keywords) ==
  PatternPrefix \o (IF keywords = <<>> THEN Undefined ELSE keywords[1])
UpdateLabels == {LabelOne, synthesizedLabel(extractKeywords(TaskOpen))}

\* the calls of cacheSuccessfulPattern the agent makes:
\* <<url, taskDescription, actions, pattern>>
StoreCalls ==
  {<<UrlPage, TaskOpen, ActionsA, LabelOne>>,
   <<UrlRaw, TaskOpen, ActionsB, NoLabel>>,
   <<UrlOther, TaskShort, ActionsB, NoLabel>>,
   <<UrlOther, TaskEmpty, ActionsB, NoLabel>>,
   <<UrlParen, TaskOpen, ActionsA, LabelOne>>}

\* the pages and tasks of the other calls
LookupUrls == {UrlPage, UrlOther, UrlParen}
LookupTasks == {TaskOpen, TaskReopen, TaskShort}

\* the instants at which calls are made: 0, the last instant inside the time
\* to live of a pattern used at 0 and the first outside it; and a day and 37
\* days later
Instants == {Epoch, Time(0, ttl - 1), Time(0, ttl)}
LateInstants == {Epoch, Time(0, ttl - 1), Time(0, ttl), Time(1, 0), Time(37, 0)}

(***************************************************************************)
(* State                                                                   *)
(***************************************************************************)
VARIABLES
  cache,   \* this.cache: key -> list of CachedActionPattern, for the keys present
  now,     \* Date.now()
  ret,     \* the outcome of the last call: what it returned or that it threw
  pc,      \* where each agent session is in its loop, and what it has stored
  extraction  \* a call of extractKeywords: its text and, once it returned, its result

vars == <<cache, now, ret, pc, extraction>>

\* extractKeywords not called on its own
NoExtraction == [text |-> <<>>, returned |-> FALSE, keywords |-> <<>>]

\* the agent sessions that share the global instance (part_001:181)
Sessions == {"s1", "s2"}
\* a session about to look up: it has stored nothing yet
Starting == [at |-> "lookup", label |-> <<>>, stored |-> 0]

\* the number 0 (part_001:144), numbers being held as fractions
Zero == [n |-> 0, d |-> 1]

\* call op returned nothing (void, or null from getCachedActions).  found:
\* getCachedActions found a match, or Map.prototype.delete found the key;
\* stats: the object getStats returned
Void(op) ==
  [op |-> op, found |-> FALSE, actions |-> <<>>, threw |-> FALSE, stats |-> <<>>]

Init ==
  /\ cache = <<>>
  /\ now = Epoch
  /\ ret = Void("none")
  /\ pc = [s \in Sessions |-> Starting]
  /\ extraction = NoExtraction

has(key) == key \in DOMAIN cache
get(key) == IF has(key) THEN cache[key] ELSE <<>>
\* Map.prototype.set
set(key, patterns) ==
  [k \in DOMAIN cache \cup {key} |-> IF k = key THEN patterns ELSE cache[k]]
\* Map.prototype.delete
delete(key) == [k \in DOMAIN cache \ {key} |-> cache[k]]

RECURSIVE SumLen(_)
SumLen(keys) ==
  IF keys = {} THEN 0
  ELSE LET k == CHOOSE k \in keys : TRUE
       IN  Len(cache[k]) + SumLen(keys \ {k})
TotalPatterns == SumLen(DOMAIN cache)

\* every instead of some: true of a pattern without keywords
keywordMatchesEvery(p, keyword) ==
  \A i \in 1..Len(p.taskKeywords) : includes(keyword, p.taskKeywords[i])

(***************************************************************************)
(* getCachedActions (part_001:27-46)                                       *)
(***************************************************************************)
\* part_001:34
keywordMatches(p, keyword) ==
  \E i \in 1..Len(p.taskKeywords) : includes(keyword, p.taskKeywords[i])

confidentOrAtThreshold(p) == LessEq(confidenceThreshold, p.confidence)
\* part_001:35
confident(p) == Less(confidenceThreshold, p.confidence)

freshOrAtTtl(p) ==
  Shorter(Minus(now, p.lastUsed), ttl) \/ Minus(now, p.lastUsed) = Time(0, ttl)
\* part_001:36
fresh(p) == Shorter(Minus(now, p.lastUsed), ttl)

\* the predicate of patterns.find at part_001:33-36
Eligible(p, keyword) ==
  keywordMatches(p, keyword) /\ confident(p) /\ fresh(p)

\* the last pattern the predicate holds of instead of the first
findLastMatch(patterns, keyword) ==
  LET hits == {i \in 1..Len(patterns) : Eligible(patterns[i], keyword)}
  IN  IF hits = {} THEN 0 ELSE CHOOSE i \in hits : \A j \in hits : i >= j

\* Array.prototype.find: the index of the first pattern the predicate
\* holds of, 0 when there is none
findMatch(patterns, keyword) ==
  LET hits == {i \in 1..Len(patterns) : Eligible(patterns[i], keyword)}
  IN  IF hits = {} THEN 0 ELSE CHOOSE i \in hits : \A j \in hits : i <= j

\* a hit taken as a use of every pattern of the key
getCachedActionsTouchingAll(url, taskDescription) ==
  LET key == getCacheKey(url)
      keyword == toLowerCase(taskDescription)
      match == findMatch(get(key), keyword)
  IN  /\ now' = now
      /\ IF has(key) /\ match # 0
         THEN /\ cache' = [cache EXCEPT ![key] =
                             [i \in 1..Len(cache[key]) |->
                                [cache[key][i] EXCEPT !.lastUsed = now]]]
              /\ ret' = [Void("lookup") EXCEPT
                           !.found = TRUE, !.actions = cache[key][match].actions]
         ELSE /\ cache' = cache
              /\ ret' = Void("lookup")

\* a hit counted as a success of the pattern
getCachedActionsCounting(url, taskDescription) ==
  LET key == getCacheKey(url)
      keyword == toLowerCase(taskDescription)
      match == findMatch(get(key), keyword)
  IN  /\ now' = now
      /\ IF has(key) /\ match # 0
         THEN /\ cache' = [cache EXCEPT ![key][match].lastUsed = now,
                                        ![key][match].successCount = @ + 1]
              /\ ret' = [Void("lookup") EXCEPT
                           !.found = TRUE, !.actions = cache[key][match].actions]
         ELSE /\ cache' = cache
              /\ ret' = Void("lookup")

\* a lookup that, when it finds nothing, drops the patterns of the key whose
\* time has run out
getCachedActionsSweeping(url, taskDescription) ==
  LET key == getCacheKey(url)
      keyword == toLowerCase(taskDescription)
      match == findMatch(get(key), keyword)
  IN  /\ now' = now
      /\ IF has(key) /\ match # 0
         THEN /\ cache' = [cache EXCEPT ![key][match].lastUsed = now]
              /\ ret' = [Void("lookup") EXCEPT
                           !.found = TRUE, !.actions = cache[key][match].actions]
         ELSE /\ cache' = IF has(key) THEN set(key, SelectSeq(get(key), fresh)) ELSE cache
              /\ ret' = Void("lookup")

getCachedActions(url, taskDescription) ==
  LET key == getCacheKey(url)
      keyword == toLowerCase(taskDescription)
      match == findMatch(get(key), keyword)
  IN  /\ now' = now
      /\ IF has(key) /\ match # 0
         THEN /\ cache' = [cache EXCEPT ![key][match].lastUsed = now]
              /\ ret' = [Void("lookup") EXCEPT
                           !.found = TRUE, !.actions = cache[key][match].actions]
         ELSE /\ cache' = cache
              /\ ret' = Void("lookup")

(***************************************************************************)
(* cacheSuccessfulPattern (part_001:51-85)                                 *)
(***************************************************************************)
RECURSIVE sortAscending(_)
\* the comparator reversed, (a, b) => a.confidence - b.confidence
sortAscending(patterns) ==
  IF patterns = <<>> THEN <<>>
  ELSE LET bottom == CHOOSE i \in 1..Len(patterns) :
                       \A j \in 1..Len(patterns) :
                         LessEq(patterns[i].confidence, patterns[j].confidence)
           lowest(p) == SameValue(p.confidence, patterns[bottom].confidence)
           higher(p) == ~lowest(p)
       IN  SelectSeq(patterns, lowest) \o sortAscending(SelectSeq(patterns, higher))

RECURSIVE sortLatestFirst(_)
\* a descending sort that is not stable: among patterns of equal confidence
\* the one pushed last comes first
sortLatestFirst(patterns) ==
  IF patterns = <<>> THEN <<>>
  ELSE LET top == CHOOSE i \in 1..Len(patterns) :
                    \A j \in 1..Len(patterns) :
                      LessEq(patterns[j].confidence, patterns[i].confidence)
           highest(p) == SameValue(p.confidence, patterns[top].confidence)
           lower(p) == ~highest(p)
           equals == SelectSeq(patterns, highest)
       IN  [i \in 1..Len(equals) |-> equals[Len(equals) + 1 - i]]
             \o sortLatestFirst(SelectSeq(patterns, lower))

RECURSIVE sortByConfidence(_)
\* patterns.sort((a, b) => b.confidence - a.confidence): descending by
\* confidence, and stable, as Array.prototype.sort is: the patterns of the
\* highest confidence in the order they have, then the rest sorted alike
sortByConfidence(patterns) ==
  IF patterns = <<>> THEN <<>>
  ELSE LET top == CHOOSE i \in 1..Len(patterns) :
                    \A j \in 1..Len(patterns) :
                      LessEq(patterns[j].confidence, patterns[i].confidence)
           highest(p) == SameValue(p.confidence, patterns[top].confidence)
           lower(p) == ~highest(p)
       IN  SelectSeq(patterns, highest) \o sortByConfidence(SelectSeq(patterns, lower))

\* Array.prototype.pop
pop(patterns) == SubSeq(patterns, 1, Len(patterns) - 1)

\* the size test off by one
keepManageableLate(patterns) ==
  IF Len(patterns) > maxCacheSize + 1
  THEN pop(sortByConfidence(patterns))
  ELSE patterns

\* part_001:78-81
keepManageable(patterns) ==
  IF Len(patterns) > maxCacheSize
  THEN pop(sortByConfidence(patterns))
  ELSE patterns

\* part_001:63-73
newPattern(url, taskDescription, actions, pattern) ==
  LET keywords == extractKeywords(taskDescription)
  IN  [id |-> <<getCacheKey(url), now>>,
       pattern |-> IF pattern # <<>> THEN pattern ELSE synthesizedLabel(keywords),
       urlPattern |-> urlToPattern(url),
       taskKeywords |-> keywords,
       actions |-> actions,
       successCount |-> 1,
       failureCount |-> 0,
       lastUsed |-> now,
       confidence |-> InitialConfidence]

\* the key's list put into the map before the pattern is built
cacheSuccessfulPatternSetFirst(url, taskDescription, actions, pattern) ==
  LET key == getCacheKey(url)
  IN  /\ now' = now
      /\ IF ~RegExpCompiles(urlToPattern(url))
         THEN /\ cache' = set(key, get(key))
              /\ ret' = [Void("store") EXCEPT !.threw = TRUE]
         ELSE /\ cache' = set(key, keepManageable(
                     Append(get(key), newPattern(url, taskDescription, actions, pattern))))
              /\ ret' = Void("store")

cacheSuccessfulPattern(url, taskDescription, actions, pattern) ==
  LET key == getCacheKey(url)
  IN  /\ now' = now
      /\ IF ~RegExpCompiles(urlToPattern(url))
         THEN \* new RegExp throws before anything is pushed
              /\ cache' = cache
              /\ ret' = [Void("store") EXCEPT !.threw = TRUE]
         ELSE /\ cache' = set(key, keepManageable(
                     Append(get(key), newPattern(url, taskDescription, actions, pattern))))
              /\ ret' = Void("store")

(***************************************************************************)
(* updatePatternConfidence (part_001:90-112)                               *)
(***************************************************************************)
\* the last pattern of the label instead of the first
findLastLabel(patterns, pattern) ==
  LET hits == {i \in 1..Len(patterns) : patterns[i].pattern = pattern}
  IN  IF hits = {} THEN 0 ELSE CHOOSE i \in hits : \A j \in hits : i >= j

\* patterns.find(x => x.pattern === pattern): index, 0 when there is none
findLabel(patterns, pattern) ==
  LET hits == {i \in 1..Len(patterns) : patterns[i].pattern = pattern}
  IN  IF hits = {} THEN 0 ELSE CHOOSE i \in hits : \A j \in hits : i <= j

\* every report counted as an attempt on both counters
updatedBothCounts(p, success) ==
  [p EXCEPT !.successCount = @ + 1,
            !.failureCount = @ + 1,
            !.confidence = recalculatedConfidence(p.successCount + 1, p.failureCount + 1,
                                                  Minus(now, p.lastUsed))]

\* the confidence recalculated from the counts as they were before the report
updatedFromOldCounts(p, success) ==
  [p EXCEPT !.successCount = IF success THEN @ + 1 ELSE @,
            !.failureCount = IF success THEN @ ELSE @ + 1,
            !.confidence = recalculatedConfidence(p.successCount, p.failureCount,
                                                  Minus(now, p.lastUsed))]

\* the report counted, the confidence left as it was
updatedCountsOnly(p, success) ==
  [p EXCEPT !.successCount = IF success THEN @ + 1 ELSE @,
            !.failureCount = IF success THEN @ ELSE @ + 1]

\* part_001:98-110 applied to the pattern found
updated(p, success) ==
  LET s == IF success THEN p.successCount + 1 ELSE p.successCount
      f == IF success THEN p.failureCount ELSE p.failureCount + 1
  IN  [p EXCEPT !.successCount = s,
                !.failureCount = f,
                !.confidence = recalculatedConfidence(s, f, Minus(now, p.lastUsed))]

updatePatternConfidence(url, pattern, success) ==
  LET key == getCacheKey(url)
      i == findLabel(get(key), pattern)
  IN  /\ now' = now
      /\ ret' = Void("update")
      /\ IF has(key) /\ i # 0
         THEN cache' = [cache EXCEPT ![key][i] = updated(cache[key][i], success)]
         ELSE cache' = cache

(***************************************************************************)
(* clearUrlCache, clearAll (part_001:117-126)                              *)
(***************************************************************************)
\* the page identifier itself taken as the key
clearUrlCacheRaw(url) ==
  /\ now' = now
  /\ cache' = delete(substring0(url, 100))
  /\ ret' = [Void("clearKey") EXCEPT !.found = has(substring0(url, 100))]

\* the key kept, with an empty list
clearUrlCacheEmptying(url) ==
  /\ now' = now
  /\ cache' = IF has(getCacheKey(url)) THEN set(getCacheKey(url), <<>>) ELSE cache
  /\ ret' = [Void("clearKey") EXCEPT !.found = has(getCacheKey(url))]

clearUrlCache(url) ==
  /\ now' = now
  /\ cache' = delete(getCacheKey(url))
  /\ ret' = [Void("clearKey") EXCEPT !.found = has(getCacheKey(url))]

clearAll ==
  /\ now' = now
  /\ cache' = <<>>
  /\ ret' = Void("clearAll")

(***************************************************************************)
(* getStats (part_001:131-146)                                             *)
(***************************************************************************)
RECURSIVE sumAttempts(_)
\* the failures counted with the successes
sumAttempts(patterns) ==
  IF patterns = <<>> THEN 0
  ELSE Head(patterns).successCount + Head(patterns).failureCount
         + sumAttempts(Tail(patterns))

RECURSIVE sumSuccessCount(_)
\* patterns.reduce((sum, p) => sum + p.successCount, 0)
sumSuccessCount(patterns) ==
  IF patterns = <<>> THEN 0
  ELSE Head(patterns).successCount + sumSuccessCount(Tail(patterns))

RECURSIVE totalsOver(_, _)
\* the loop over this.cache.values() at part_001:135-138, which has the keys
\* of keys left to visit: <<totalPatterns, totalHits>>
totalsOver(keys, totals) ==
  IF keys = {} THEN totals
  ELSE LET k == CHOOSE k \in keys : TRUE
       IN  totalsOver(keys \ {k},
                      <<totals[1] + Len(cache[k]), totals[2] + sumSuccessCount(cache[k])>>)

\* the object returned at part_001:140-145
statistics ==
  LET totals == totalsOver(DOMAIN cache, <<0, 0>>)
      totalPatterns == totals[1]
      totalHits == totals[2]
  IN  [totalPatterns |-> totalPatterns,
       totalHits |-> totalHits,
       cacheSize |-> Cardinality(DOMAIN cache),
       estimatedHitRate |-> IF totalPatterns > 0
                            THEN [n |-> totalHits, d |-> totalPatterns]
                            ELSE Zero]

getStats ==
  /\ now' = now
  /\ cache' = cache
  /\ ret' = [Void("stats") EXCEPT !.stats = statistics]

\* time passes between two calls
Tick(instants) ==
  /\ \E t \in instants : Later(t, now) /\ now' = t
  /\ UNCHANGED <<cache, ret, pc, extraction>>

(***************************************************************************)
(* The calls the agent makes                                               *)
(***************************************************************************)
RECURSIVE SumFeedback(_)
\* successCount + failureCount - 1 summed over a list: the feedback it holds
SumFeedback(patterns) ==
  IF patterns = <<>> THEN 0
  ELSE Head(patterns).successCount + Head(patterns).failureCount - 1
         + SumFeedback(Tail(patterns))

RECURSIVE TotalFeedbackOf(_)
TotalFeedbackOf(keys) ==
  IF keys = {} THEN 0
  ELSE LET k == CHOOSE k \in keys : TRUE
       IN  SumFeedback(cache[k]) + TotalFeedbackOf(keys \ {k})
TotalFeedback == TotalFeedbackOf(DOMAIN cache)

\* the calls below are made outside the sessions' loop
Lookup(urls, tasks) ==
  /\ \E url \in urls, task \in tasks : getCachedActions(url, task)
  /\ UNCHANGED <<pc, extraction>>

Store(calls, maxPatterns) ==
  \E call \in calls :
    /\ TotalPatterns < maxPatterns
    /\ cacheSuccessfulPattern(call[1], call[2], call[3], call[4])
    /\ UNCHANGED <<pc, extraction>>

Update(urls, labels, maxFeedback) ==
  \E url \in urls, label \in labels, success \in BOOLEAN :
    /\ TotalFeedback < maxFeedback
    /\ updatePatternConfidence(url, label, success)
    /\ UNCHANGED <<pc, extraction>>

ClearKey(urls) ==
  /\ \E url \in urls : clearUrlCache(url)
  /\ UNCHANGED <<pc, extraction>>

ClearAll == clearAll /\ UNCHANGED <<pc, extraction>>

GetStats == getStats /\ UNCHANGED <<pc, extraction>>

Next ==
  \/ Lookup(LookupUrls, LookupTasks)
  \/ Store(StoreCalls, MaxPatterns)
  \/ Update(LookupUrls, UpdateLabels, MaxFeedback)
  \/ ClearKey(LookupUrls)
  \/ ClearAll
  \/ GetStats
  \/ Tick(Instants)

Spec == Init /\ [][Next]_vars

(***************************************************************************)
(* The feedback scenario: one page, one task, one label, many reports,     *)
(* and calls up to a day apart                                             *)
(***************************************************************************)
FeedbackCalls == {<<UrlPage, TaskOpen, ActionsA, LabelOne>>}

NextFeedback ==
  \/ Lookup({UrlPage}, {TaskOpen})
  \/ Store(FeedbackCalls, MaxPatterns)
  \/ Update({UrlPage}, {LabelOne}, MaxReports)
  \/ GetStats
  \/ Tick(LateInstants)

SpecFeedback == Init /\ [][NextFeedback]_vars

(***************************************************************************)
(* The full key: the cache after maxCacheSize - 1 calls of                 *)
(* cacheSuccessfulPattern for one page, and the calls made on it           *)
(***************************************************************************)
\* the list of a key after n <= maxCacheSize calls
\* cacheSuccessfulPattern(call) on an empty key at this instant: each call
\* pushes one pattern and none is dropped
storedTimes(n, call) ==
  [i \in 1..n |-> newPattern(call[1], call[2], call[3], call[4])]

FullCalls == {<<UrlRaw, TaskOpen, ActionsB, NoLabel>>}

FirstCall == <<UrlPage, TaskOpen, ActionsA, LabelOne>>

InitFull ==
  /\ now = Epoch
  /\ cache = [k \in {getCacheKey(UrlPage)} |-> storedTimes(maxCacheSize - 1, FirstCall)]
  /\ ret = Void("store")
  /\ pc = [s \in Sessions |-> Starting]
  /\ extraction = NoExtraction

\* the positions of a list that hold anything else than a pattern of the
\* initial state, unchanged
Changed(patterns) ==
  {i \in 1..Len(patterns) :
     patterns[i] # [newPattern(FirstCall[1], FirstCall[2], FirstCall[3], FirstCall[4])
                      EXCEPT !.id = <<getCacheKey(FirstCall[1]), Epoch>>, !.lastUsed = Epoch]}

\* a call on a key that is full or one short of it, made while at most
\* MaxPatterns of the key's patterns are new or changed
StoreOnFull(calls) ==
  \E call \in calls :
    /\ Len(get(getCacheKey(call[1]))) >= maxCacheSize - 1
    /\ Cardinality(Changed(get(getCacheKey(call[1])))) <= MaxPatterns
    /\ cacheSuccessfulPattern(call[1], call[2], call[3], call[4])
    /\ UNCHANGED <<pc, extraction>>

NextFull ==
  \/ Lookup({UrlPage}, {TaskOpen})
  \/ StoreOnFull(FullCalls)
  \/ Update({UrlPage}, UpdateLabels, MaxFeedback)
  \/ ClearKey({UrlPage})
  \/ ClearAll
  \/ GetStats
  \/ Tick({Epoch, Time(0, ttl)})

SpecFull == InitFull /\ [][NextFull]_vars

(***************************************************************************)
(* Tasks without a keyword: calls for one page with tasks that have no     *)
(* token longer than three characters, and reports on their label          *)
(***************************************************************************)
KeywordCalls ==
  {<<UrlOther, TaskShort, ActionsB, LabelOne>>,
   <<UrlOther, TaskEmpty, ActionsB, LabelOne>>,
   <<UrlOther, TaskOpen, ActionsA, LabelOne>>}

KeywordTasks == {TaskOpen, TaskShort, TaskEmpty}

NextKeywords ==
  \/ Lookup({UrlOther}, KeywordTasks)
  \/ Store(KeywordCalls, MaxPatterns)
  \/ Update({UrlOther}, {LabelOne}, MaxFeedback)
  \/ Tick(Instants)

SpecKeywords == Init /\ [][NextKeywords]_vars

(***************************************************************************)
(* extractKeywords on its own (part_001:159-165): one call on a task text  *)
(***************************************************************************)
\* "Open", "REPOS", "the": two words longer than three characters, with
\* capitals, and one that is not
Words == {<<"O", "p", "e", "n">>, <<"R", "E", "P", "O", "S">>, <<"t", "h", "e">>}

RECURSIVE joined(_)
\* the words with one blank between them
joined(words) ==
  IF words = <<>> THEN <<>>
  ELSE IF Len(words) = 1 THEN words[1]
       ELSE words[1] \o <<" ">> \o joined(Tail(words))

\* texts of up to MaxWords words
WordTexts == {joined(words) : words \in UNION {[1..n -> Words] : n \in 0..MaxWords}}

\* texts with white space at their ends, in runs, and of several kinds
SpacedTexts ==
  {<<" ">>,
   <<" ", "\t", "\n">>,
   <<" ", "O", "p", "e", "n">>,
   <<"O", "p", "e", "n", " ", "\n">>,
   <<"\t", "O", "p", "e", "n", " ", " ", "t", "h", "e", "\n", "\t", "R", "E", "P", "O", "S", " ">>,
   <<"t", "h", "e", "\t", "t", "h", "e">>,
   <<"a", "b", "c", "\n", "A", "B", "C", "D">>}

Texts == WordTexts \cup SpacedTexts

InitExtract ==
  /\ cache = <<>>
  /\ now = Epoch
  /\ ret = Void("none")
  /\ pc = [s \in Sessions |-> Starting]
  /\ extraction \in {[NoExtraction EXCEPT !.text = text] : text \in Texts}

Extract ==
  /\ ~extraction.returned
  /\ extraction' = [extraction EXCEPT !.returned = TRUE,
                                      !.keywords = extractKeywords(extraction.text)]
  /\ UNCHANGED <<cache, now, ret, pc>>

NextExtract == Extract

SpecExtract == InitExtract /\ [][NextExtract]_vars

(***************************************************************************)
(* Two sessions on the global instance.  Each runs the loop of the usage   *)
(* (GeminiModelSettings.tsx:419-434): getCachedActions, and on a miss      *)
(* cacheSuccessfulPattern; then it reports how the actions went with       *)
(* updatePatternConfidence.  Every call runs to its end before the next    *)
(* starts, JavaScript running one call at a time, and between two calls of *)
(* a session the other session may make its own.                           *)
(***************************************************************************)
\* what session s got from the model for the task
actionsOf(s) == IF s = "s1" THEN ActionsA ELSE ActionsB

SessionLookup(s) ==
  /\ pc[s].at = "lookup"
  /\ getCachedActions(UrlPage, TaskOpen)
  /\ pc' = [pc EXCEPT ![s].at = IF ret'.found THEN "done" ELSE "store"]
  /\ UNCHANGED extraction

SessionStore(s) ==
  /\ pc[s].at = "store"
  /\ UNCHANGED extraction
  /\ \E label \in UpdateLabels :
       /\ cacheSuccessfulPattern(UrlPage, TaskOpen, actionsOf(s), label)
       /\ pc' = [pc EXCEPT ![s] = [at |-> "update", label |-> label,
                                    stored |-> Len(get(getCacheKey(UrlPage))) + 1]]

SessionUpdate(s) ==
  /\ pc[s].at = "update"
  /\ \E success \in BOOLEAN : updatePatternConfidence(UrlPage, pc[s].label, success)
  /\ pc' = [pc EXCEPT ![s].at = "done"]
  /\ UNCHANGED extraction

NextSessions ==
  \/ \E s \in Sessions : SessionLookup(s)
  \/ \E s \in Sessions : SessionStore(s)
  \/ \E s \in Sessions : SessionUpdate(s)
  \/ Tick(Instants)

SpecSessions == Init /\ [][NextSessions]_vars

(***************************************************************************)
(* Properties                                                              *)
(***************************************************************************)
Keys == DOMAIN cache
Positions(key) == 1..Len(cache[key])

\* in this step getCachedActions returned the actions of the pattern at
\* position i of key and refreshed that pattern
ReturnedPattern(key, i) ==
  /\ ret'.found
  /\ ret'.actions = cache[key][i].actions
  /\ cache' = [cache EXCEPT ![key][i].lastUsed = now]

\* key holds nothing but the pattern a store of call at this instant leaves
\* on an empty key
JustStored(call) ==
  /\ has(getCacheKey(call[1]))
  /\ cache[getCacheKey(call[1])] = <<newPattern(call[1], call[2], call[3], call[4])>>

\* C1: store(p, t, a) on an empty key followed at once by lookup(p, t') for
\* a task t' whose lower-cased text contains one of the stored keywords
\* returns exactly a
C1_StoreThenLookupHits ==
  [][\A call \in StoreCalls, task \in LookupTasks :
       (/\ JustStored(call)
        /\ keywordMatches(cache[getCacheKey(call[1])][1], toLowerCase(task))
        /\ getCachedActions(call[1], task))
       => (ret'.found /\ ret'.actions = call[3])]_vars

\* C2: whenever lookup returns actions, they are the actions of a pattern
\* of the key whose confidence is strictly above confidenceThreshold: a
\* pattern at or below the threshold is never the one returned
C2_ThresholdGating ==
  [][\A url \in LookupUrls, task \in LookupTasks :
       (ret'.found /\ getCachedActions(url, task))
       => \E i \in Positions(getCacheKey(url)) :
            /\ ReturnedPattern(getCacheKey(url), i)
            /\ Less(confidenceThreshold, cache[getCacheKey(url)][i].confidence)]_vars

\* a lookup has returned a later pattern of a key and passed over an earlier
\* one that is within its time to live and has a keyword of the returned
\* pattern, but whose confidence is not above the threshold
C2_Witness ==
  /\ ret.op = "lookup" /\ ret.found
  /\ \E key \in Keys : \E i, j \in Positions(key) :
       /\ i < j
       /\ cache[key][j].actions = ret.actions
       /\ cache[key][j].lastUsed = now
       /\ cache[key][i].actions # ret.actions
       /\ cache[key][i].taskKeywords = cache[key][j].taskKeywords
       /\ cache[key][i].taskKeywords # <<>>
       /\ Shorter(Minus(now, cache[key][i].lastUsed), ttl)
       /\ LessEq(cache[key][i].confidence, confidenceThreshold)

\* C3: whenever lookup returns actions, they are the actions of a pattern
\* whose lastUsed lies strictly less than ttl before the call: a pattern
\* last used ttl or more ago is never the one returned
C3_TtlMiss ==
  [][\A url \in LookupUrls, task \in LookupTasks :
       (ret'.found /\ getCachedActions(url, task))
       => \E i \in Positions(getCacheKey(url)) :
            /\ ReturnedPattern(getCacheKey(url), i)
            /\ Shorter(Minus(now, cache[getCacheKey(url)][i].lastUsed), ttl)]_vars

\* a lookup has returned a later pattern of a key and passed over an earlier
\* one with the same keywords and a confidence above the threshold that was
\* last used exactly ttl before
C3_Witness ==
  /\ ret.op = "lookup" /\ ret.found
  /\ \E key \in Keys : \E i, j \in Positions(key) :
       /\ i < j
       /\ cache[key][j].actions = ret.actions
       /\ cache[key][j].lastUsed = now
       /\ cache[key][i].actions # ret.actions
       /\ cache[key][i].taskKeywords = cache[key][j].taskKeywords
       /\ cache[key][i].taskKeywords # <<>>
       /\ Less(confidenceThreshold, cache[key][i].confidence)
       /\ Minus(now, cache[key][i].lastUsed) = Time(0, ttl)

(***************************************************************************)
(* Properties of the full key (SpecFull) and of feedback (SpecFeedback)    *)
(***************************************************************************)
\* C4: after every call every key's list holds at most maxCacheSize patterns
C4_BoundedSize ==
  \A key \in Keys : Len(cache[key]) <= maxCacheSize

\* the patterns of a list that were not in the initial state of SpecFull
NewOnFull(patterns) ==
  {i \in 1..Len(patterns) : patterns[i].actions # FirstCall[3]}

\* a store has returned and left a key with exactly maxCacheSize patterns, two
\* of them stored after the first maxCacheSize - 1: one more than the key
\* holds has been pushed, and one was dropped
C4_Witness ==
  /\ ret.op = "store" /\ ~ret.threw
  /\ \E key \in Keys :
       /\ Len(cache[key]) = maxCacheSize
       /\ Cardinality(NewOnFull(cache[key])) >= 2

Range(seq) == {seq[i] : i \in 1..Len(seq)}
Count(seq, x) == Cardinality({i \in 1..Len(seq) : seq[i] = x})

\* C5: a store that takes a key's list beyond maxCacheSize removes exactly
\* one pattern from the list with the new pattern in it; the removed one has
\* a confidence no higher than any pattern that stays, and every other
\* pattern is still in the list, as often as before
C5_EvictionCorrectness ==
  [][\A call \in FullCalls :
       LET key == getCacheKey(call[1])
           added == Append(get(key), newPattern(call[1], call[2], call[3], call[4]))
       IN  (/\ ret'.op = "store"
            /\ Len(added) > maxCacheSize
            /\ cacheSuccessfulPattern(call[1], call[2], call[3], call[4]))
           => /\ Len(cache'[key]) = Len(added) - 1
              /\ \E removed \in Range(added) :
                   /\ \A x \in Range(added) :
                        Count(cache'[key], x)
                          = Count(added, x) - (IF x = removed THEN 1 ELSE 0)
                   /\ \A i \in 1..Len(cache'[key]) :
                        LessEq(removed.confidence, cache'[key][i].confidence)]_vars

\* a store has returned from a full key on which confidences differed: two
\* patterns stored after the first maxCacheSize - 1 are in the list, which is
\* in descending order of confidence and holds a pattern above 0.85
C5_Witness ==
  /\ ret.op = "store" /\ ~ret.threw
  /\ \E key \in Keys :
       /\ Len(cache[key]) = maxCacheSize
       /\ Cardinality(NewOnFull(cache[key])) >= 2
       /\ \A i \in 1..(maxCacheSize - 1) :
            LessEq(cache[key][i + 1].confidence, cache[key][i].confidence)
       /\ Less(InitialConfidence, cache[key][1].confidence)
       /\ SameValue(InitialConfidence, cache[key][maxCacheSize].confidence)

\* C6: the confidence of every stored pattern is within [0, 1]
C6_ConfidenceRange ==
  \A key \in Keys : \A i \in Positions(key) :
    /\ cache[key][i].confidence.d > 0
    /\ cache[key][i].confidence.n >= 0
    /\ cache[key][i].confidence.n <= cache[key][i].confidence.d

\* a report has been applied a day after the pattern was last used: the
\* pattern has counted successes and a failure and its confidence is above 0
\* and below its success rate
C6_Witness ==
  /\ ret.op = "update"
  /\ \E key \in Keys : \E i \in Positions(key) :
       LET p == cache[key][i]
       IN  /\ p.successCount >= 2 /\ p.failureCount >= 1
           /\ Minus(now, p.lastUsed) = Time(1, 0)
           /\ p.confidence.n > 0
           /\ Less(p.confidence,
                   [n |-> p.successCount, d |-> p.successCount + p.failureCount])

\* C7: a failure report adds 1 to failureCount and leaves successCount; the
\* pattern that has thereby reached successCount 1 and failureCount 5 (a
\* store and five failure reports) has a confidence of at most 1/6, below
\* 0.85; and no lookup returns a pattern with these counts
C7_FailureFeedbackDisables ==
  [][/\ \A url \in {UrlPage}, label \in UpdateLabels :
          LET key == getCacheKey(url)
              found == {i \in 1..Len(get(key)) : get(key)[i].pattern = label}
          IN  (ret'.op = "update" /\ found # {}
                 /\ updatePatternConfidence(url, label, FALSE))
              => \E i \in found :
                   /\ \A j \in found : i <= j
                   /\ cache'[key][i].failureCount = cache[key][i].failureCount + 1
                   /\ cache'[key][i].successCount = cache[key][i].successCount
                   /\ (cache'[key][i].successCount = 1 /\ cache'[key][i].failureCount = 5)
                      => /\ LessEq(cache'[key][i].confidence, [n |-> 1, d |-> 6])
                         /\ Less(cache'[key][i].confidence, InitialConfidence)
     /\ \A url \in {UrlPage}, task \in LookupTasks :
          (ret'.found /\ getCachedActions(url, task))
          => \E i \in Positions(getCacheKey(url)) :
               /\ ReturnedPattern(getCacheKey(url), i)
               /\ ~(/\ cache[getCacheKey(url)][i].successCount = 1
                    /\ cache[getCacheKey(url)][i].failureCount = 5)]_vars

\* five failure reports have followed the store of a pattern with no time
\* between the calls: its counts are 1 and 5 and its confidence is 1/6
C7_Witness ==
  /\ ret.op = "update"
  /\ \E key \in Keys : \E i \in Positions(key) :
       LET p == cache[key][i]
       IN  /\ p.successCount = 1 /\ p.failureCount = 5
           /\ p.id[2] = now /\ p.lastUsed = now
           /\ p.taskKeywords # <<>>
           /\ SameValue(p.confidence, [n |-> 1, d |-> 6])

(***************************************************************************)
(* Properties of the calls, continued (Spec)                                *)
(***************************************************************************)
\* C8: every updatePatternConfidence call that finds its pattern sets that
\* pattern's lastUsed to the time of the call
C8_UpdateRefreshesLastUsed ==
  [][\A url \in LookupUrls, label \in UpdateLabels, success \in BOOLEAN :
       (/\ updatePatternConfidence(url, label, success)
        /\ has(getCacheKey(url))
        /\ \E i \in Positions(getCacheKey(url)) :
             cache[getCacheKey(url)][i].pattern = label)
       => \E i \in Positions(getCacheKey(url)) :
            /\ cache[getCacheKey(url)][i].pattern = label
            /\ cache'[getCacheKey(url)][i].lastUsed = now]_vars

\* C9: no call throws, and every cacheSuccessfulPattern call returns with
\* the new pattern in the list of the derived key
C9_NoOperationRaises ==
  [][/\ ~ret'.threw
     /\ \A call \in StoreCalls :
          cacheSuccessfulPattern(call[1], call[2], call[3], call[4])
          => /\ getCacheKey(call[1]) \in DOMAIN cache'
             /\ \E i \in 1..Len(cache'[getCacheKey(call[1])]) :
                  cache'[getCacheKey(call[1])][i]
                    = newPattern(call[1], call[2], call[3], call[4])]_vars

\* C10: every stored pattern has at least one keyword
C10_KeywordsNeverEmpty ==
  \A key \in Keys : \A i \in Positions(key) : cache[key][i].taskKeywords # <<>>

(***************************************************************************)
(* Properties of the frame of each call                                    *)
(***************************************************************************)
\* getCachedActions(url, task) called on cache c at this instant returns null
Misses(c, url, task) ==
  \/ getCacheKey(url) \notin DOMAIN c
  \/ findMatch(c[getCacheKey(url)], toLowerCase(task)) = 0

\* C11: clearUrlCache(url) leaves no entry for the key of url, so that a
\* lookup for url made next returns null for every task; it leaves the list
\* of every other key as it was and adds no key; when the key of url had no
\* entry the cache is unchanged
C11_ClearKeyFrame ==
  [][\A url \in LookupUrls :
       (ret'.op = "clearKey" /\ clearUrlCache(url))
       => LET key == getCacheKey(url)
          IN  /\ key \notin DOMAIN cache'
              /\ \A task \in LookupTasks : Misses(cache', url, task)
              /\ DOMAIN cache' = DOMAIN cache \ {key}
              /\ \A other \in DOMAIN cache' : cache'[other] = cache[other]
              /\ (key \notin DOMAIN cache => cache' = cache)]_vars

\* a call of clearUrlCache has removed a key that had an entry and has left
\* the patterns of another key
C11_Witness ==
  /\ ret.op = "clearKey" /\ ret.found
  /\ TotalPatterns > 0

\* C12: every cacheSuccessfulPattern call leaves the key's list as it was
\* with one more pattern at the end, whose successCount is 1, failureCount 0
\* and confidence 0.85, also when a pattern of the same page, task, actions
\* and label is stored already
C12_StoreAppends ==
  [][\A call \in StoreCalls :
       (ret'.op = "store" /\ cacheSuccessfulPattern(call[1], call[2], call[3], call[4]))
       => LET key == getCacheKey(call[1])
              before == get(key)
          IN  /\ key \in DOMAIN cache'
              /\ Len(cache'[key]) = Len(before) + 1
              /\ SubSeq(cache'[key], 1, Len(before)) = before
              /\ cache'[key][Len(before) + 1].successCount = 1
              /\ cache'[key][Len(before) + 1].failureCount = 0
              /\ SameValue(cache'[key][Len(before) + 1].confidence, [n |-> 85, d |-> 100])
              /\ cache'[key][Len(before) + 1].actions = call[3]]_vars

\* C13: updatePatternConfidence(url, label, success) does not throw and
\* changes no pattern but the first one of that label in the list of the key
\* of url; the lists of the other keys, the other patterns of the list, later
\* ones of the same label among them, and the keys present stay as they were;
\* without an entry for the key or a pattern of the label the cache is unchanged
C13_UpdateFrame ==
  [][ret'.op = "update" =>
       \A url \in LookupUrls, label \in UpdateLabels :
         LET key == getCacheKey(url)
             labelled == {i \in 1..Len(get(key)) : get(key)[i].pattern = label}
         IN  \/ /\ ~ret'.threw
                /\ DOMAIN cache' = DOMAIN cache
                /\ \A other \in DOMAIN cache \ {key} : cache'[other] = cache[other]
                /\ labelled = {} => cache' = cache
                /\ labelled # {} =>
                      /\ Len(cache'[key]) = Len(cache[key])
                      /\ \A i \in 1..Len(cache[key]) :
                           cache'[key][i] # cache[key][i]
                           => (i \in labelled /\ \A j \in labelled : i <= j)
             \/ \A success \in BOOLEAN : ~updatePatternConfidence(url, label, success)]_vars

\* a report has been made on a label that two patterns of one key carry: the
\* first has come to two attempts, the second is as it was stored
C13_Witness ==
  /\ ret.op = "update"
  /\ \E key \in Keys :
       /\ Len(cache[key]) = 2
       /\ cache[key][1].pattern = cache[key][2].pattern
       /\ cache[key][1].successCount + cache[key][1].failureCount = 2
       /\ cache[key][2].successCount + cache[key][2].failureCount = 1

(***************************************************************************)
(* Properties of the counters and the ids                                  *)
(***************************************************************************)
\* every stored pattern has succeeded at least once and failed no less than
\* never
CountersInRange ==
  \A key \in Keys : \A i \in Positions(key) :
    /\ cache[key][i].successCount >= 1
    /\ cache[key][i].failureCount >= 0
    /\ cache[key][i].successCount + cache[key][i].failureCount >= 1

\* C14: every stored pattern has successCount >= 1, failureCount >= 0 and so
\* at least one attempt; an updatePatternConfidence call that finds its
\* pattern adds exactly 1 to successCount and nothing to failureCount when
\* success is true, exactly 1 to failureCount and nothing to successCount
\* otherwise; and no call takes a counter of a pattern down
C14_Counters ==
  /\ []CountersInRange
  /\ [][/\ \A url \in LookupUrls, label \in UpdateLabels, success \in BOOLEAN :
            LET key == getCacheKey(url)
                labelled == {i \in 1..Len(get(key)) : get(key)[i].pattern = label}
            IN  (ret'.op = "update" /\ labelled # {}
                 /\ updatePatternConfidence(url, label, success))
                => \E i \in labelled :
                     /\ \A j \in labelled : i <= j
                     /\ cache'[key][i].successCount
                          = cache[key][i].successCount + (IF success THEN 1 ELSE 0)
                     /\ cache'[key][i].failureCount
                          = cache[key][i].failureCount + (IF success THEN 0 ELSE 1)
        /\ \A key \in DOMAIN cache \cap DOMAIN cache' :
            \A i \in 1..Min(Len(cache[key]), Len(cache'[key])) :
              /\ cache'[key][i].successCount >= cache[key][i].successCount
              /\ cache'[key][i].failureCount >= cache[key][i].failureCount]_vars

\* reports of both kinds have been counted on one pattern
C14_Witness ==
  /\ ret.op = "update"
  /\ \E key \in Keys : \E i \in Positions(key) :
       cache[key][i].successCount >= 3 /\ cache[key][i].failureCount >= 2

\* C15: no two patterns held in the cache have the same id, two patterns
\* stored under one key at one instant included
C15_UniqueIds ==
  \A key \in Keys, other \in Keys :
    \A i \in Positions(key), j \in Positions(other) :
      cache[key][i].id = cache[other][j].id => (key = other /\ i = j)

(***************************************************************************)
(* Properties of getStats                                                  *)
(***************************************************************************)
\* the places of the cache that hold a pattern
Places == {place \in Keys \X (1..TotalPatterns) : place[2] <= Len(cache[place[1]])}

RECURSIVE Successes(_)
\* the sum of successCount over a set of places
Successes(places) ==
  IF places = {} THEN 0
  ELSE LET place == CHOOSE place \in places : TRUE
       IN  cache[place[1]][place[2]].successCount + Successes(places \ {place})

\* C16: getStats returns totalPatterns, the sum of the lengths of the lists
\* of all keys; totalHits, the sum of successCount over all stored patterns;
\* cacheSize, the number of keys present; and estimatedHitRate, totalHits /
\* totalPatterns, or 0 when there is no pattern
C16_StatsValues ==
  ret.op = "stats" =>
    /\ ret.stats.totalPatterns = Cardinality(Places)
    /\ ret.stats.totalHits = Successes(Places)
    /\ ret.stats.cacheSize = Cardinality(Keys)
    /\ IF Places = {}
       THEN ret.stats.estimatedHitRate.n = 0
       ELSE ret.stats.estimatedHitRate.n * Cardinality(Places)
              = Successes(Places) * ret.stats.estimatedHitRate.d

\* getStats has returned for a cache of one key and two patterns, one of
\* them with a success and a failure reported
C16_Witness ==
  /\ ret.op = "stats"
  /\ ret.stats.cacheSize = 1
  /\ ret.stats.totalPatterns = 2
  /\ ret.stats.totalHits = 3
  /\ TotalFeedback = 2

\* C17: getStats changes nothing of the cache and returns what the cache
\* holds; and what it would return is changed by no call but
\* cacheSuccessfulPattern, updatePatternConfidence, clearUrlCache and
\* clearAll: not by getStats, not by getCachedActions, not by time passing.
\* So two getStats calls with none of those four between them return the same
C17_StatsPureRead ==
  [][/\ ret'.op = "stats" => (cache' = cache /\ ret'.stats = statistics)
     /\ (ret'.op \in {"stats", "lookup"} \/ now' # now) => statistics' = statistics]_vars

\* getStats has returned for a cache holding a pattern that
\* getCachedActions has served since it was stored
C17_Witness ==
  /\ ret.op = "stats"
  /\ \E key \in Keys : \E i \in Positions(key) :
       Later(cache[key][i].lastUsed, cache[key][i].id[2])

(***************************************************************************)
(* Properties of getCachedActions                                          *)
(***************************************************************************)
\* C18: when getCachedActions returns a list, the list is the actions of one
\* pattern of the cache, in the order in which they were passed to
\* cacheSuccessfulPattern, and the call has written the current time to the
\* lastUsed of that pattern and nothing else: no confidence, counter,
\* keyword, list or key is changed.  When it returns null it leaves the cache
\* as it was.  And no call changes the actions of a stored pattern
C18_LookupEffect ==
  [][/\ (ret'.op = "lookup" /\ now' = now /\ ret'.found)
          => /\ ret'.actions \in {call[3] : call \in StoreCalls}
             /\ \E key \in Keys : \E i \in Positions(key) :
                  /\ ret'.actions = cache[key][i].actions
                  /\ cache' = [cache EXCEPT ![key][i].lastUsed = now]
     /\ (ret'.op = "lookup" /\ now' = now /\ ~ret'.found)
          => (ret'.actions = <<>> /\ cache' = cache)
     /\ \A key \in DOMAIN cache \cap DOMAIN cache' :
          \A i \in 1..Min(Len(cache[key]), Len(cache'[key])) :
            cache'[key][i].actions = cache[key][i].actions]_vars

\* getCachedActions has served one of two patterns of a key, which is used
\* now, and the other is last used when it was before
C18_Witness ==
  /\ ret.op = "lookup" /\ ret.found /\ Later(now, Epoch)
  /\ \E key \in Keys :
       /\ Len(cache[key]) = 2
       /\ \E i, j \in Positions(key) :
            /\ cache[key][i].lastUsed = now
            /\ cache[key][i].actions = ret.actions
            /\ Later(now, cache[key][j].lastUsed)

\* what a pattern is, apart from its use: the fields no report and no
\* lookup writes to
Identity(p) == <<p.id, p.pattern, p.urlPattern, p.taskKeywords, p.actions>>

\* C19: when several patterns of the key match the task, are confident and
\* are fresh, getCachedActions serves the first of them in the list; and
\* getCachedActions and updatePatternConfidence leave every pattern at its
\* place in its list, and a cacheSuccessfulPattern call on a key holding
\* fewer than maxCacheSize patterns leaves the list as it was up to its end
C19_FirstMatchWins ==
  [][/\ \A url \in LookupUrls, task \in LookupTasks :
          (ret'.found /\ ret'.op = "lookup" /\ getCachedActions(url, task))
          => LET key == getCacheKey(url)
                 eligible == {i \in 1..Len(get(key)) :
                                Eligible(get(key)[i], toLowerCase(task))}
             IN  \E i \in eligible :
                   /\ \A j \in eligible : i <= j
                   /\ ret'.actions = cache[key][i].actions
                   /\ cache'[key][i].lastUsed = now
     /\ (ret'.op \in {"lookup", "update"} /\ cache' # cache) =>
          /\ DOMAIN cache' = DOMAIN cache
          /\ \A key \in DOMAIN cache :
               /\ Len(cache'[key]) = Len(cache[key])
               /\ \A i \in 1..Len(cache[key]) :
                    Identity(cache'[key][i]) = Identity(cache[key][i])
     /\ (ret'.op = "store" /\ cache' # cache) =>
          \A key \in DOMAIN cache :
            Len(cache[key]) < maxCacheSize
            => /\ key \in DOMAIN cache'
               /\ Len(cache'[key]) >= Len(cache[key])
               /\ SubSeq(cache'[key], 1, Len(cache[key])) = cache[key]]_vars

\* getCachedActions has served the first of two patterns of a key that have
\* the same keywords and are both confident and fresh
C19_Witness ==
  /\ ret.op = "lookup" /\ ret.found
  /\ \E key \in Keys :
       /\ Len(cache[key]) = 2
       /\ cache[key][1].taskKeywords = cache[key][2].taskKeywords
       /\ confident(cache[key][1]) /\ confident(cache[key][2])
       /\ fresh(cache[key][1]) /\ fresh(cache[key][2])
       /\ cache[key][1].actions # cache[key][2].actions
       /\ ret.actions = cache[key][1].actions
       /\ cache[key][1].lastUsed = now
       /\ Later(now, cache[key][2].lastUsed)

(***************************************************************************)
(* Properties of the recalculated confidence                               *)
(***************************************************************************)
\* s / (s + f) for the counters of a pattern
SuccessRate(p) == [n |-> p.successCount, d |-> p.successCount + p.failureCount]
\* half of it
HalfSuccessRate(p) == [n |-> p.successCount, d |-> 2 * (p.successCount + p.failureCount)]
\* successRate * (0.5 + 0.5 * decay) for a decay of decay / DecayScale
Discounted(p, decay) ==
  [n |-> p.successCount * (DecayScale + decay),
   d |-> (p.successCount + p.failureCount) * 2 * DecayScale]

\* the pattern a report on label finds under key, 0 when there is none
Reported(key, label) ==
  LET labelled == {i \in 1..Len(get(key)) : get(key)[i].pattern = label}
  IN  IF labelled = {} THEN 0 ELSE CHOOSE i \in labelled : \A j \in labelled : i <= j

\* C20: right after an updatePatternConfidence call that finds its pattern,
\* with the counters as they are after the increment, the confidence is
\* successRate * (0.5 + 0.5 * decay) for a decay in (0, 1]: strictly above
\* half the success rate, at most the success rate, and the success rate
\* itself when no time has passed since lastUsed
C20_ConfidenceFormula ==
  [][\A url \in LookupUrls, label \in UpdateLabels, success \in BOOLEAN :
       LET key == getCacheKey(url)
           i == Reported(key, label)
       IN  (ret'.op = "update" /\ i # 0 /\ updatePatternConfidence(url, label, success))
           => LET p == cache'[key][i]
              IN  /\ \E decay \in 1..DecayScale : SameValue(p.confidence, Discounted(p, decay))
                  /\ Less(HalfSuccessRate(p), p.confidence)
                  /\ LessEq(p.confidence, SuccessRate(p))
                  /\ now = cache[key][i].lastUsed
                       => SameValue(p.confidence, SuccessRate(p))]_vars

\* C20 as amended: the confidence is successRate * (0.5 + 0.5 * decay) for a
\* decay in [0, 1]: at least half the success rate, strictly above it when
\* less than 36 days have passed since lastUsed and half the success rate
\* itself when 37 days or more have passed; at most the success rate, and
\* the success rate itself when no time has passed
C20_ConfidenceFormulaRounded ==
  [][\A url \in LookupUrls, label \in UpdateLabels, success \in BOOLEAN :
       LET key == getCacheKey(url)
           i == Reported(key, label)
       IN  (ret'.op = "update" /\ i # 0 /\ updatePatternConfidence(url, label, success))
           => LET p == cache'[key][i]
                  timeSinceUsed == Minus(now, cache[key][i].lastUsed)
              IN  /\ \E decay \in 0..DecayScale : SameValue(p.confidence, Discounted(p, decay))
                  /\ LessEq(HalfSuccessRate(p), p.confidence)
                  /\ timeSinceUsed.days < 36 => Less(HalfSuccessRate(p), p.confidence)
                  /\ timeSinceUsed.days >= 37 => SameValue(p.confidence, HalfSuccessRate(p))
                  /\ LessEq(p.confidence, SuccessRate(p))
                  /\ timeSinceUsed = Time(0, 0)
                       => SameValue(p.confidence, SuccessRate(p))]_vars

\* a report has been applied 37 days after the pattern was last used, and
\* the pattern, with successes and a failure counted, has half its success
\* rate as its confidence
C20_Witness ==
  /\ ret.op = "update"
  /\ \E key \in Keys : \E i \in Positions(key) :
       LET p == cache[key][i]
       IN  /\ p.successCount >= 2 /\ p.failureCount >= 1
           /\ Minus(now, p.lastUsed) = Time(37, 0)
           /\ SameValue(p.confidence, HalfSuccessRate(p))

(***************************************************************************)
(* Interleaved sessions, checked under SpecSessions.                       *)
(***************************************************************************)
\* the counters or the confidence of the pattern at place i of the key differ
\* across the step
Recounted(key, i) ==
  LET p == cache[key][i]
      q == cache'[key][i]
  IN  \/ q.successCount # p.successCount
      \/ q.failureCount # p.failureCount
      \/ ~SameValue(q.confidence, p.confidence)

\* C21: when two sessions share the store and their whole calls interleave,
\* the report of a session changes the counters and confidence of the pattern
\* that this session stored, and of no other pattern, also when both sessions
\* store for the same page under the same label.
C21_OwnPattern ==
  [][\A s \in Sessions :
       (pc[s].at = "update" /\ pc'[s].at = "done") =>
         LET key == getCacheKey(UrlPage)
         IN  \A i \in Positions(key) : Recounted(key, i) <=> i = pc[s].stored]_vars

(***************************************************************************)
(* Reuse after the first success report, checked under SpecFeedback.       *)
(***************************************************************************)
\* the pattern stored first on the page's key has had one report, a success,
\* since it was stored, and less than ttl has passed since it was last used
FirstSuccessReported(key) ==
  /\ has(key)
  /\ LET p == cache[key][1]
     IN  /\ p.successCount = 2 /\ p.failureCount = 0
         /\ p.taskKeywords # <<>>
         /\ fresh(p)

\* C22: from an empty key, a store, then a success report for its label, then
\* a lookup of the same page and task, all less than ttl after the store and
\* with a task that yields a keyword: the lookup returns the stored actions,
\* the confidence after the report being above 0.85.
C22_ReusableAfterSuccess ==
  [][(ret'.op = "lookup" /\ now' = now /\ FirstSuccessReported(getCacheKey(UrlPage))) =>
       LET p == cache[getCacheKey(UrlPage)][1]
       IN  /\ Less(InitialConfidence, p.confidence)
           /\ ret'.found
           /\ ret'.actions = p.actions]_vars

\* the lookup has returned the actions of the pattern reported once, some
\* time after it was stored
C22_Witness ==
  /\ ret.op = "lookup" /\ ret.found /\ ret.actions = ActionsA
  /\ now = Time(0, ttl - 1)
  /\ has(getCacheKey(UrlPage))
  /\ LET p == cache[getCacheKey(UrlPage)][1]
     IN  /\ p.successCount = 2 /\ p.failureCount = 0
         /\ p.lastUsed = now

(***************************************************************************)
(* A store on a key that holds maxCacheSize patterns, checked under        *)
(* SpecFull.                                                               *)
(***************************************************************************)
\* the places of the list whose pattern has a confidence below 0.85
BelowInitial(patterns) ==
  {i \in 1..Len(patterns) : Less(patterns[i].confidence, InitialConfidence)}

\* list `after` holds the patterns of list `before`, each as often, but for
\* one more of `more` and one fewer of `fewer`
Exchanged(before, after, more, fewer) ==
  \A x \in Range(before) \cup Range(after) \cup {more, fewer} :
    Count(after, x) + (IF x = fewer THEN 1 ELSE 0)
      = Count(before, x) + (IF x = more THEN 1 ELSE 0)

\* C23: a store on a key that holds maxCacheSize patterns keeps the pattern it
\* creates if and only if some pattern of the key has a confidence below
\* 0.85, and then removes one such pattern of the lowest confidence; when all
\* have 0.85 or more the pattern removed is the created one and the key holds
\* the same patterns as before.
C23_StoreOnFullKey ==
  [][\A call \in FullCalls :
       LET key == getCacheKey(call[1])
           old == get(key)
           new == newPattern(call[1], call[2], call[3], call[4])
           below == BelowInitial(old)
       IN  (/\ ret'.op = "store"
            /\ Len(old) = maxCacheSize
            /\ cacheSuccessfulPattern(call[1], call[2], call[3], call[4]))
           => /\ Len(cache'[key]) = maxCacheSize
              /\ (Count(cache'[key], new) = Count(old, new) + 1) <=> (below # {})
              /\ below # {} =>
                   \E i \in below :
                     /\ \A j \in 1..Len(old) : LessEq(old[i].confidence, old[j].confidence)
                     /\ Exchanged(old, cache'[key], new, old[i])
              /\ below = {} => Exchanged(old, cache'[key], new, new)]_vars

\* a store on the full key has kept its pattern, the second one stored after
\* the first maxCacheSize - 1, and has dropped the one pattern that a failure
\* report had taken below 0.85: none below 0.85 is left
C23_Witness ==
  /\ ret.op = "store" /\ ~ret.threw
  /\ \E key \in Keys :
       /\ Len(cache[key]) = maxCacheSize
       /\ Cardinality(NewOnFull(cache[key])) >= 2
       /\ BelowInitial(cache[key]) = {}
       /\ \A i \in Positions(key) : cache[key][i].failureCount = 0

(***************************************************************************)
(* Expiry, checked under SpecFeedback, where calls are up to 37 days apart *)
(***************************************************************************)
\* at instant t the time since pattern p was last used has reached ttl
Expired(p, t) == ~Shorter(Minus(t, p.lastUsed), ttl)

\* what tells a pattern and its last use apart from the others of its key
Stamp(p) == <<p.id, p.pattern, p.urlPattern, p.taskKeywords, p.actions, p.lastUsed>>

CountStamp(patterns, stamp) ==
  Cardinality({i \in 1..Len(patterns) : Stamp(patterns[i]) = stamp})

\* C24: the clock never goes back, and a pattern whose time since lastUsed
\* has reached ttl keeps its lastUsed through every later call, so that no
\* lookup returns it (a lookup sets the lastUsed of the pattern it returns),
\* and stays expired in its key's list unless the key is cleared or a store
\* on the key holding maxCacheSize patterns evicts a pattern.
C24_ExpiryPermanent ==
  [][/\ ~Later(now, now')
     /\ \A key \in Keys :
          LET old == cache[key]
              expired == {i \in 1..Len(old) : Expired(old[i], now)}
          IN  \A stamp \in {Stamp(old[i]) : i \in expired} :
                \/ key \notin DOMAIN cache'
                \/ /\ key \in DOMAIN cache'
                   /\ \A j \in 1..Len(cache'[key]) :
                        Stamp(cache'[key][j]) = stamp => Expired(cache'[key][j], now')
                   /\ CountStamp(cache'[key], stamp)
                        >= CountStamp(old, stamp)
                             - (IF Len(old) = maxCacheSize THEN 1 ELSE 0)]_vars

\* a day after it was stored and last used, a lookup has missed although the
\* key holds a pattern of the task above the threshold, one that had a
\* success reported before and another after its time ran out
C24_Witness ==
  /\ ret.op = "lookup" /\ ~ret.found
  /\ now = Time(1, 0)
  /\ \E key \in Keys : \E i \in Positions(key) :
       LET p == cache[key][i]
       IN  /\ p.lastUsed = Epoch
           /\ p.successCount = 3 /\ p.failureCount = 0
           /\ confident(p)
           /\ keywordMatches(p, toLowerCase(TaskOpen))

(***************************************************************************)
(* Counters of a returned pattern, checked under SpecFeedback.             *)
(***************************************************************************)
\* C25: the confidence of a pattern with a failure counted is at most
\* successCount / (successCount + failureCount) in every state, and a lookup
\* returns a pattern with f >= 1 failures only if 3 * successCount > 17 * f:
\* with one failure, only once five successes have been reported on top of
\* the one counted by the store.
C25_CounterCondition ==
  /\ [](\A key \in Keys : \A i \in Positions(key) :
          cache[key][i].failureCount >= 1
            => LessEq(cache[key][i].confidence, SuccessRate(cache[key][i])))
  /\ [][(ret'.op = "lookup" /\ now' = now /\ ret'.found) =>
          \E key \in Keys : \E i \in Positions(key) :
            LET p == cache[key][i]
            IN  /\ ReturnedPattern(key, i)
                /\ p.failureCount >= 1 => 3 * p.successCount > 17 * p.failureCount
                /\ p.failureCount = 1 => p.successCount >= 6]_vars

\* a lookup has returned the actions of a pattern with one failure counted,
\* after five success reports
C25_Witness ==
  /\ ret.op = "lookup" /\ ret.found
  /\ \E key \in Keys : \E i \in Positions(key) :
       LET p == cache[key][i]
       IN  /\ p.failureCount = 1 /\ p.successCount = 6
           /\ p.lastUsed = now
           /\ p.actions = ret.actions
           /\ \A j \in Positions(key) : j # i => cache[key][j].failureCount = 0 /\ cache[key][j].successCount = 1

(***************************************************************************)
(* Patterns without keywords, checked under SpecKeywords.                  *)
(***************************************************************************)
\* C26: no lookup returns a pattern whose taskKeywords is empty, whatever the
\* task, the pattern's confidence and its age: what a lookup returns is
\* the actions of a pattern with a keyword, and a lookup leaves every
\* pattern without keywords as it was.  A store of a task without keywords
\* still adds a pattern to the key's list.
C26_NoKeywordsNoHit ==
  [][/\ (ret'.op = "lookup" /\ now' = now) =>
          /\ ret'.found =>
               \E key \in Keys : \E i \in Positions(key) :
                 /\ cache[key][i].taskKeywords # <<>>
                 /\ ReturnedPattern(key, i)
          /\ \A key \in Keys : \A i \in Positions(key) :
               cache[key][i].taskKeywords = <<>>
                 => key \in DOMAIN cache' /\ cache'[key][i] = cache[key][i]
     /\ \A call \in KeywordCalls :
          LET key == getCacheKey(call[1])
          IN  (/\ ret'.op = "store"
               /\ extractKeywords(call[2]) = <<>>
               /\ cacheSuccessfulPattern(call[1], call[2], call[3], call[4]))
              => /\ Len(cache'[key]) = Len(get(key)) + 1
                 /\ cache'[key][Len(cache'[key])].taskKeywords = <<>>]_vars

\* a lookup has missed on a key whose only pattern has no keywords, is above
\* the threshold after a success report and was last used less than ttl ago
C26_Witness ==
  /\ ret.op = "lookup" /\ ~ret.found
  /\ \E key \in Keys :
       /\ Len(cache[key]) = 1
       /\ cache[key][1].taskKeywords = <<>>
       /\ confident(cache[key][1])
       /\ fresh(cache[key][1])

(***************************************************************************)
(* A store that fails, checked under Spec.                                 *)
(***************************************************************************)
\* C27: a store call that fails while it builds the new pattern, the page's
\* regular expression not compiling, leaves the cache exactly as it was: no
\* pattern added, removed or moved under any key, and no key created.
C27_FailedStoreAtomic ==
  [][\A call \in StoreCalls :
       (/\ ret'.op = "store"
        /\ ~RegExpCompiles(urlToPattern(call[1]))
        /\ cacheSuccessfulPattern(call[1], call[2], call[3], call[4]))
       => /\ ret'.threw
          /\ cache' = cache
          /\ getCacheKey(call[1]) \notin DOMAIN cache']_vars

\* a store for the page with the unbalanced parenthesis has thrown and left
\* a cache that holds a pattern of another page, and no key for its own page
C27_Witness ==
  /\ ret.op = "store" /\ ret.threw
  /\ Cardinality(Keys) >= 1
  /\ TotalPatterns >= 1
  /\ getCacheKey(UrlParen) \notin Keys

(***************************************************************************)
(* The life of a pattern, checked under SpecFull, where stores evict.      *)
(***************************************************************************)
CountIdentity(patterns, identity) ==
  Cardinality({i \in 1..Len(patterns) : Identity(patterns[i]) = identity})

Identities(patterns) == {Identity(patterns[i]) : i \in 1..Len(patterns)}

\* the call of this step, "tick" when the step only moves the clock
StepOf == IF now' = now THEN ret'.op ELSE "tick"

\* C28: only a store adds a pattern; a pattern keeps its id, label, page
\* matcher, keywords and actions, and stays under its key until a store on
\* that key evicts from the full list, clearUrlCache deletes the key or
\* clearAll empties the cache; lookup, update and getStats leave the keys and
\* the patterns under them in place; after clearAll the cache has no key.
C28_Lifecycle ==
  [][/\ \A key \in DOMAIN cache' :
          \A x \in Identities(cache'[key]) :
            CountIdentity(cache'[key], x) > CountIdentity(get(key), x)
              => StepOf = "store"
     /\ \A key \in Keys :
          \A x \in Identities(cache[key]) :
            (key \notin DOMAIN cache' \/ CountIdentity(cache'[key], x) < CountIdentity(cache[key], x))
              => \/ StepOf = "clearAll"
                 \/ StepOf = "clearKey" /\ key \notin DOMAIN cache'
                 \/ /\ StepOf = "store"
                    /\ Len(cache[key]) = maxCacheSize
                    /\ key \in DOMAIN cache'
                    /\ CountIdentity(cache'[key], x) = CountIdentity(cache[key], x) - 1
     /\ StepOf \in {"lookup", "update", "stats", "tick"} =>
          /\ DOMAIN cache' = DOMAIN cache
          /\ \A key \in Keys :
               /\ Len(cache'[key]) = Len(cache[key])
               /\ \A i \in Positions(key) :
                    Identity(cache'[key][i]) = Identity(cache[key][i])
     /\ StepOf = "clearAll" => cache' = <<>>]_vars

\* a store has evicted from the full key after a success report had been
\* counted: the list is full and holds two patterns stored after the first
\* maxCacheSize - 1, and the pattern reported on is still in it
C28_Witness ==
  /\ ret.op = "store" /\ ~ret.threw
  /\ \E key \in Keys :
       /\ Len(cache[key]) = maxCacheSize
       /\ Cardinality(NewOnFull(cache[key])) >= 2
       /\ \E i \in Positions(key) : cache[key][i].successCount >= 2

(***************************************************************************)
(* Keys and statistics, checked under Spec.                                *)
(***************************************************************************)
\* C29: every key of the cache maps to a list with at least one pattern, and
\* what getStats returned satisfies cacheSize <= totalPatterns
\* <= cacheSize * maxCacheSize, totalHits >= totalPatterns, and
\* estimatedHitRate >= 1 when totalPatterns > 0.
C29_KeysNonEmpty ==
  /\ \A key \in Keys : cache[key] # <<>>
  /\ ret.op = "stats" =>
       /\ ret.stats.cacheSize <= ret.stats.totalPatterns
       /\ ret.stats.totalPatterns <= ret.stats.cacheSize * maxCacheSize
       /\ ret.stats.totalHits >= ret.stats.totalPatterns
       /\ ret.stats.totalPatterns > 0
            => LessEq([n |-> 1, d |-> 1], ret.stats.estimatedHitRate)
       /\ ret.stats.totalPatterns = 0 => ret.stats.estimatedHitRate = Zero

\* getStats has returned for a cache of two keys, one pattern each, one of
\* them with a success reported
C29_Witness ==
  /\ ret.op = "stats"
  /\ ret.stats.cacheSize = 2
  /\ ret.stats.totalPatterns = 2
  /\ ret.stats.totalHits = 3
  /\ Cardinality(Keys) = 2

(***************************************************************************)
(* extractKeywords, checked under SpecExtract.                             *)
(***************************************************************************)
\* the tokens of s: <<first, last>> of every stretch without white space that
\* has white space or an end of the text on either side
Tokens(s) ==
  {t \in (1..Len(s)) \X (1..Len(s)) :
     /\ t[1] <= t[2]
     /\ \A i \in t[1]..t[2] : ~IsSpace(s[i])
     /\ t[1] = 1 \/ IsSpace(s[t[1] - 1])
     /\ t[2] = Len(s) \/ IsSpace(s[t[2] + 1])}

LongTokens(s) == {t \in Tokens(s) : t[2] - t[1] + 1 > 3}

\* C30: extractKeywords returns the tokens of the text that are longer than
\* 3 characters, lower-cased, in the order they have in the text, and only
\* the first 5 of them: at most 5 items, each longer than 3, none when the
\* text is empty or has no such token.
C30_KeywordExtraction ==
  extraction.returned =>
    LET s == extraction.text
        keywords == extraction.keywords
        long == LongTokens(s)
    IN  /\ Len(keywords) = Min(5, Cardinality(long))
        /\ \A i \in 1..Len(keywords) :
             \E t \in long :
               /\ Cardinality({u \in long : u[1] < t[1]}) = i - 1
               /\ keywords[i] = toLowerCase(SubSeq(s, t[1], t[2]))
        /\ Len(keywords) <= 5
        /\ \A i \in 1..Len(keywords) : Len(keywords[i]) > 3
        /\ (s = <<>> \/ long = {}) => keywords = <<>>

\* extractKeywords has returned five keywords for a text with capitals and
\* six tokens longer than 3 characters
C30_Witness ==
  /\ extraction.returned
  /\ Len(extraction.keywords) = 5
  /\ Cardinality(LongTokens(extraction.text)) = 6
  /\ extraction.text # toLowerCase(extraction.text)

====
